---- MODULE Spec2Model ----
(***************************************************************************)
(* The rating engine of advanced_ranking_system.py: Team, Match and        *)
(* RankingSystem.  Python floats are modelled as binary floating point     *)
(* with round-to-nearest-even and a significand of Precision bits (53 in   *)
(* CPython; fewer here so that every intermediate fits a 32-bit integer).  *)
(* A float is [m, e] with value m * 2^e and 2^(Precision-1) <= |m| <       *)
(* 2^Precision, or m = 0.  Python ints in range are exactly representable. *)
(***************************************************************************)
EXTENDS Integers, Sequences, FiniteSets, TLC

\* ---- bounds of the model ----
Precision == 12
MaxCalls == 3
MaxRecentCalls == 11
MaxNormalizations == 3

\* ---- float arithmetic ----

Pow2(n) == 2 ^ n

RECURSIVE BitLen(_)
BitLen(n) == IF n = 0 THEN 0 ELSE 1 + BitLen(n \div 2)

Zero == [m |-> 0, e |-> 0]

RoundHalfEven(n, s, sticky) ==
    IF s = 0 THEN n
    ELSE LET q == n \div Pow2(s)
             r == n % Pow2(s)
             h == Pow2(s - 1)
         IN  IF r > h \/ (r = h /\ (sticky \/ q % 2 = 1)) THEN q + 1 ELSE q

FRound(sign, n, e, sticky) ==
    IF n = 0 THEN Zero
    ELSE LET bl == BitLen(n) IN
         IF bl <= Precision
         THEN [m |-> sign * n * Pow2(Precision - bl), e |-> e - (Precision - bl)]
         ELSE LET s == bl - Precision
                  q == RoundHalfEven(n, s, sticky)
              IN  IF q = Pow2(Precision)
                  THEN [m |-> sign * Pow2(Precision - 1), e |-> e + s + 1]
                  ELSE [m |-> sign * q, e |-> e + s]

Abs(i) == IF i < 0 THEN -i ELSE i
Sgn(i) == IF i < 0 THEN -1 ELSE 1

FromInt(i) == FRound(Sgn(i), Abs(i), 0, FALSE)
FNeg(x) == [m |-> -x.m, e |-> x.e]
FAbs(x) == [m |-> Abs(x.m), e |-> x.e]

FMul(x, y) == FRound(Sgn(x.m) * Sgn(y.m), Abs(x.m) * Abs(y.m), x.e + y.e, FALSE)

FDiv(x, y) ==
    IF x.m = 0 THEN Zero
    ELSE LET n == Abs(x.m) * Pow2(Precision + 2)
             d == Abs(y.m)
         IN  FRound(Sgn(x.m) * Sgn(y.m), n \div d, x.e - y.e - (Precision + 2), n % d # 0)

FAdd(x, y) ==
    IF x.m = 0 THEN y
    ELSE IF y.m = 0 THEN x
    ELSE LET hi == IF x.e >= y.e THEN x ELSE y
             lo == IF x.e >= y.e THEN y ELSE x
             d  == hi.e - lo.e
         IN  IF d > Precision + 2
             THEN FRound(Sgn(hi.m),
                         IF Sgn(hi.m) = Sgn(lo.m) THEN 4 * Abs(hi.m) ELSE 4 * Abs(hi.m) - 1,
                         hi.e - 2, TRUE)
             ELSE LET s == hi.m * Pow2(d) + lo.m
                  IN  FRound(Sgn(s), Abs(s), lo.e, FALSE)

FSub(x, y) == FAdd(x, FNeg(y))

FLt(x, y) ==
    IF x.m = 0 THEN y.m > 0
    ELSE IF y.m = 0 THEN x.m < 0
    ELSE IF Sgn(x.m) # Sgn(y.m) THEN x.m < 0
    ELSE IF x.m > 0 THEN x.e < y.e \/ (x.e = y.e /\ x.m < y.m)
    ELSE x.e > y.e \/ (x.e = y.e /\ x.m < y.m)

FixOne == Pow2(20)

MulFix(a, b) ==
    LET ah == a \div 1024
        al == a % 1024
        bh == b \div 1024
        bl == b % 1024
    IN  ah * bh + ((ah * bl + al * bh + ((al * bl) \div 1024)) \div 1024)

RootsOfTwo == << 1482910, 1246974, 1143480, 1095000, 1071537, 1059994, 1054270,
                 1051419, 1049997, 1049286, 1048931, 1048753, 1048665, 1048620,
                 1048598, 1048587, 1048582, 1048579, 1048577, 1048577 >>

RECURSIVE Exp2Frac(_, _)
Exp2Frac(f, i) ==
    IF i > 20 THEN FixOne
    ELSE LET rest == Exp2Frac(f, i + 1)
         IN  IF (f \div Pow2(20 - i)) % 2 = 1 THEN MulFix(RootsOfTwo[i], rest) ELSE rest

Log2Of10Hi == 1700
Log2Of10Lo == 1694

Pow10(z) ==
    IF z.m = 0 THEN FromInt(1)
    ELSE LET a  == Abs(z.m) * Log2Of10Hi
             b  == Abs(z.m) * Log2Of10Lo
             s  == -z.e
             t  == IF s >= 11 THEN (a + (b \div 2048)) \div Pow2(s - 11)
                   ELSE a * Pow2(11 - s) + (IF s >= 0 THEN b \div Pow2(s) ELSE b * Pow2(-s))
             ts == Sgn(z.m) * t
             n  == ts \div FixOne
             f  == ts % FixOne
         IN  FRound(1, Exp2Frac(f, 1), n - 20, FALSE)

One == [m |-> Pow2(Precision - 1), e |-> 1 - Precision]

\* A decimal literal num/den of the source, rounded to the nearest float.
Dec(num, den) == FDiv(FromInt(num), FromInt(den))

\* ---- Python values ----
\* A score argument of record_match: an int, None, or a str.
PyInt(n) == [type |-> "int", value |-> n]
PyNone == [type |-> "NoneType", value |-> 0]
PyStr == [type |-> "str", value |-> 0]
\* The absent map name (map_name = None).
NoMap == "None"

EmptyDict == [k \in {} |-> 0]

\* ---- Team ----
InitialPoints == 1000
RecentCapacity == 10
BaseKFactor == 32

\* Team.__init__; map_performance holds the identity of the team's dict object.
NewTeam(name, dict_id) ==
    [name |-> name, points |-> FromInt(InitialPoints), match_history |-> <<>>,
     recent_matches |-> <<>>, map_performance |-> dict_id, heatmap_data |-> EmptyDict,
     momentum_score |-> 0, resilience_score |-> 0]

\* A store is [teams, dicts]: the teams in the insertion order of RankingSystem.teams,
\* and the map_performance dict objects by identity.
EmptyStore == [teams |-> <<>>, dicts |-> <<>>]

HasTeam(st, name) == \E i \in 1..Len(st.teams) : st.teams[i].name = name

TeamIndex(st, name) == CHOOSE i \in 1..Len(st.teams) : st.teams[i].name = name

GetOrCreateTeam(st, name) ==
    IF HasTeam(st, name) THEN st
    ELSE [teams |-> Append(st.teams, NewTeam(name, Len(st.dicts) + 1)),
          dicts |-> Append(st.dicts, EmptyDict)]

\* Variant of update_points: self.points = delta.
UpdatePointsAssign(st, i, delta) == [st EXCEPT !.teams[i].points = delta]

UpdatePoints(st, i, delta) == [st EXCEPT !.teams[i].points = FAdd(@, delta)]

\* Variant of add_match: pop() in place of pop(0), dropping the newest entry.
AddMatchPopNewest(st, i, match_details) ==
    [st EXCEPT !.teams[i].match_history = Append(@, match_details),
               !.teams[i].recent_matches =
                   IF Len(@) + 1 > RecentCapacity THEN @ ELSE Append(@, match_details)]

AddMatch(st, i, match_details) ==
    LET recent == Append(st.teams[i].recent_matches, match_details)
    IN  [st EXCEPT !.teams[i].match_history = Append(@, match_details),
                   !.teams[i].recent_matches =
                       IF Len(recent) > RecentCapacity THEN Tail(recent) ELSE recent]

UpdateMapPerformance(st, i, map_name, result) ==
    LET id  == st.teams[i].map_performance
        d   == st.dicts[id]
        cur == IF map_name \in DOMAIN d THEN d[map_name] ELSE [wins |-> 0, losses |-> 0]
        new == IF result = "win" THEN [cur EXCEPT !.wins = @ + 1]
               ELSE [cur EXCEPT !.losses = @ + 1]
    IN  [st EXCEPT !.dicts[id] = (map_name :> new) @@ d]

UpdateHeatmap(st, i, position) ==
    LET h == st.teams[i].heatmap_data
        n == IF position \in DOMAIN h THEN h[position] ELSE 0
    IN  [st EXCEPT !.teams[i].heatmap_data = (position :> n + 1) @@ h]

RECURSIVE UpdateHeatmaps(_, _, _)
UpdateHeatmaps(st, i, positions) ==
    IF positions = <<>> THEN st
    ELSE UpdateHeatmaps(UpdateHeatmap(st, i, Head(positions)), i, Tail(positions))

\* ---- Match ----
StageMultiplier(stage) ==
    CASE stage = "Group Stage" -> One
      [] stage = "Quarterfinal" -> Dec(12, 10)
      [] stage = "Semifinal" -> Dec(15, 10)
      [] stage = "Final" -> FromInt(2)
      [] OTHER -> One

ExpectedA(points_a, points_b) ==
    FDiv(One, FAdd(One, Pow10(FDiv(FSub(points_b, points_a), FromInt(400)))))

ExpectedB(expected_a) == FSub(One, expected_a)

ActualA(score_a, score_b) == IF score_a > score_b THEN 1 ELSE 0

ActualB(actual_a) == 1 - actual_a

\* Variant of k_factor without the margin term.
KFactorNoMargin(stage, score_a, score_b) ==
    FMul(FromInt(BaseKFactor), StageMultiplier(stage))

KFactor(stage, score_a, score_b) ==
    FMul(FMul(FromInt(BaseKFactor), StageMultiplier(stage)),
         FAdd(One, FDiv(FromInt(Abs(score_a - score_b)), FromInt(16))))

DeltaA(k_factor, actual_a, expected_a) == FMul(k_factor, FSub(FromInt(actual_a), expected_a))

\* Variant of delta_b computed with the base k-factor.
DeltaBBaseK(k_factor, actual_b, expected_b) ==
    FMul(FromInt(BaseKFactor), FSub(FromInt(actual_b), expected_b))

DeltaB(k_factor, actual_b, expected_b) == FMul(k_factor, FSub(FromInt(actual_b), expected_b))

EloChange(k_factor, expected_a, actual_a) ==
    [delta_a |-> DeltaA(k_factor, actual_a, expected_a),
     delta_b |-> DeltaB(k_factor, ActualB(actual_a), ExpectedB(expected_a)),
     k_factor |-> k_factor, expected_a |-> expected_a, actual_a |-> actual_a]

\* Match.calculate_elo_change: the deltas, with the intermediate values they come from.
CalculateEloChange(points_a, points_b, score_a, score_b, stage) ==
    EloChange(KFactor(stage, score_a, score_b), ExpectedA(points_a, points_b),
              ActualA(score_a, score_b))

ResultA(score_a, score_b) == IF score_a > score_b THEN "win" ELSE "loss"

ResultB(score_a, score_b) == IF score_b > score_a THEN "win" ELSE "loss"

MapResultA(score_a, score_b) == IF score_a > score_b THEN "win" ELSE "loss"

MapResultB(score_a, score_b) == IF score_a > score_b THEN "loss" ELSE "win"

MatchDetails(opponent, score, result, map_name, is_tournament, stage) ==
    [opponent |-> opponent, score |-> score, result |-> result, map |-> map_name,
     tournament |-> is_tournament, stage |-> stage]

\* Match.__init__: the match's own fields (the two teams are passed by index).
Match(score_a, score_b, map_name, is_tournament, stage, positions_a, positions_b) ==
    [score_a |-> score_a, score_b |-> score_b, map_name |-> map_name,
     is_tournament |-> is_tournament, stage |-> stage,
     positions_a |-> positions_a, positions_b |-> positions_b]

\* The body of Match.apply_match_results after the deltas are computed, on the teams
\* at indices a and b (a = b when a team is recorded against itself: both references
\* are the one Team object).
ApplyElo(st, a, b, elo, match) ==
    UpdateHeatmaps(
      UpdateHeatmaps(
        UpdateMapPerformance(
          UpdateMapPerformance(
            AddMatch(
              AddMatch(
                UpdatePoints(UpdatePoints(st, a, elo.delta_a), b, elo.delta_b),
                a, MatchDetails(st.teams[b].name, match.score_a,
                                ResultA(match.score_a, match.score_b), match.map_name,
                                match.is_tournament, match.stage)),
              b, MatchDetails(st.teams[a].name, match.score_b,
                              ResultB(match.score_a, match.score_b), match.map_name,
                              match.is_tournament, match.stage)),
            a, match.map_name, MapResultA(match.score_a, match.score_b)),
          b, match.map_name, MapResultB(match.score_a, match.score_b)),
        a, match.positions_a),
      b, match.positions_b)

\* What apply_match_results leaves behind: the store, and the deltas it applied.
Applied(st, a, b, elo, match) ==
    [store |-> ApplyElo(st, a, b, elo, match), raised |-> "none", elo |-> elo]

ApplyMatchResults(st, a, b, match) ==
    Applied(st, a, b,
            CalculateEloChange(st.teams[a].points, st.teams[b].points, match.score_a,
                               match.score_b, match.stage),
            match)

\* ---- RankingSystem ----
VARIABLES
    teams,      \* RankingSystem.teams: the Team objects in insertion order
    dicts,      \* the map_performance dict objects, by identity
    snapshot,   \* the list last returned by get_rankings
    outcome,    \* the last call: its name, the exception it raised, what it computed
    before,     \* the store when ingestion of the last match record began
    calls,      \* number of calls made so far
    normalizations  \* number of normalize_rankings calls that completed

vars == <<teams, dicts, snapshot, outcome, before, calls, normalizations>>

Store == [teams |-> teams, dicts |-> dicts]

NoElo == [delta_a |-> Zero, delta_b |-> Zero, k_factor |-> Zero, expected_a |-> Zero,
          actual_a |-> 0]

Outcome(op, raised, elo, amount) ==
    [op |-> op, raised |-> raised, elo |-> elo, amount |-> amount]

\* The match of record_match once both teams are resolved: comparing or subtracting
\* scores that are not both ints raises TypeError inside calculate_elo_change, before
\* any update.
EvaluateMatch(st, team_a_name, team_b_name, score_a, score_b, match) ==
    IF score_a.type = "int" /\ score_b.type = "int"
    THEN ApplyMatchResults(st, TeamIndex(st, team_a_name), TeamIndex(st, team_b_name),
                           [match EXCEPT !.score_a = score_a.value,
                                         !.score_b = score_b.value])
    ELSE [store |-> st, raised |-> "TypeError", elo |-> NoElo]

\* RankingSystem.record_match as a function of the store.
RecordMatchOn(st, team_a_name, team_b_name, match) ==
    EvaluateMatch(GetOrCreateTeam(GetOrCreateTeam(st, team_a_name), team_b_name),
                  team_a_name, team_b_name, match.score_a, match.score_b, match)

RecordMatch(team_a_name, team_b_name, match) ==
    \E r \in {RecordMatchOn(Store, team_a_name, team_b_name, match)} :
        /\ teams' = r.store.teams
        /\ dicts' = r.store.dicts
        /\ before' = Store
        /\ outcome' = Outcome("record_match", r.raised, r.elo, Zero)
        /\ calls' = calls + 1
        /\ UNCHANGED <<snapshot, normalizations>>

RECURSIVE SumPoints(_)
SumPoints(ts) ==
    IF ts = <<>> THEN Zero ELSE FAdd(SumPoints(SubSeq(ts, 1, Len(ts) - 1)), ts[Len(ts)].points)

\* Variant of normalize_rankings that closes the whole gap: (1000 - average_points).
NormalizeAmountFull(ts) == FSub(FromInt(1000), FDiv(SumPoints(ts), FromInt(Len(ts))))

\* (1000 - average_points) * 0.1
NormalizeAmount(ts) ==
    FMul(FSub(FromInt(1000), FDiv(SumPoints(ts), FromInt(Len(ts)))), Dec(1, 10))

AddToAll(ts, amount) ==
    [i \in 1..Len(ts) |-> [ts[i] EXCEPT !.points = FAdd(@, amount)]]

NormalizeRankings ==
    /\ calls' = calls + 1
    /\ UNCHANGED <<dicts, snapshot, before>>
    /\ IF Len(teams) = 0
       THEN /\ outcome' = Outcome("normalize_rankings", "ZeroDivisionError", NoElo, Zero)
            /\ UNCHANGED <<teams, normalizations>>
       ELSE \E amount \in {NormalizeAmount(teams)} :
            /\ teams' = AddToAll(teams, amount)
            /\ outcome' = Outcome("normalize_rankings", "none", NoElo, amount)
            /\ normalizations' = normalizations + 1

\* x * 100 as an exact integer when x has no finer fraction, else rounded half-even.
Hundredths(x) ==
    IF x.e >= 0 THEN 100 * Abs(x.m) * Pow2(x.e)
    ELSE RoundHalfEven(100 * Abs(x.m), -x.e, FALSE)

\* q / 100 rounded to the nearest float.
FromHundredths(sign, q, shift) ==
    FRound(sign, (q * Pow2(shift)) \div 100, -shift, (q * Pow2(shift)) % 100 # 0)

GuardShift(q) == IF Precision + 9 > BitLen(q) THEN Precision + 9 - BitLen(q) ELSE 0

\* round(x, 2): the exact value rounded half-even to hundredths, then to the nearest float.
Round2(x) ==
    IF x.m = 0 THEN Zero
    ELSE FromHundredths(Sgn(x.m), Hundredths(x), GuardShift(Hundredths(x)))

\* Variant of the sort that puts a team before the teams it ties with.
InsertBeforeEqual(sorted, team) ==
    SubSeq(sorted, 1,
           Cardinality({i \in 1..Len(sorted) : FLt(team.points, sorted[i].points)}))
    \o <<team>>
    \o SubSeq(sorted,
              Cardinality({i \in 1..Len(sorted) : FLt(team.points, sorted[i].points)}) + 1,
              Len(sorted))

\* sorted(..., key=points, reverse=True): stable, so equal keys keep their order.
InsertByPoints(sorted, team) ==
    SubSeq(sorted, 1,
           Cardinality({i \in 1..Len(sorted) : ~FLt(sorted[i].points, team.points)}))
    \o <<team>>
    \o SubSeq(sorted,
              Cardinality({i \in 1..Len(sorted) : ~FLt(sorted[i].points, team.points)}) + 1,
              Len(sorted))

RECURSIVE SortedTeams(_)
SortedTeams(ts) ==
    IF ts = <<>> THEN <<>>
    ELSE InsertByPoints(SortedTeams(SubSeq(ts, 1, Len(ts) - 1)), ts[Len(ts)])

\* One record of get_rankings: map_performance is the team's own dict object (by
\* identity), heatmap is a copy made by dict().
RankingRecord(team) ==
    [team |-> team.name, points |-> Round2(team.points),
     map_performance |-> team.map_performance, heatmap |-> team.heatmap_data]

Rankings(sorted_teams) == [i \in 1..Len(sorted_teams) |-> RankingRecord(sorted_teams[i])]

GetRankings ==
    /\ snapshot' = Rankings(SortedTeams(teams))
    /\ outcome' = Outcome("get_rankings", "none", NoElo, Zero)
    /\ calls' = calls + 1
    /\ UNCHANGED <<teams, dicts, before, normalizations>>

\* ---- load_matches_from_csv ----
\* A row of csv.DictReader is a function from column names to cell texts.  Score and
\* position cells are sequences of characters, because int() and split(';') read them
\* character by character; the other cells are used whole.
Digits == {"0", "1", "2", "3", "4", "5", "6", "7", "8", "9"}

DigitValue(c) ==
    CASE c = "0" -> 0 [] c = "1" -> 1 [] c = "2" -> 2 [] c = "3" -> 3 [] c = "4" -> 4
      [] c = "5" -> 5 [] c = "6" -> 6 [] c = "7" -> 7 [] c = "8" -> 8 [] c = "9" -> 9

AllDigits(text) == Len(text) > 0 /\ \A i \in 1..Len(text) : text[i] \in Digits

\* Whether int(text) succeeds: an optional sign, then one or more digits.
IsIntText(text) ==
    \/ AllDigits(text)
    \/ Len(text) > 1 /\ text[1] \in {"-", "+"} /\ AllDigits(Tail(text))

RECURSIVE DigitsValue(_)
DigitsValue(text) ==
    IF text = <<>> THEN 0
    ELSE 10 * DigitsValue(SubSeq(text, 1, Len(text) - 1)) + DigitValue(text[Len(text)])

ParseInt(text) ==
    IF text[1] = "-" THEN -DigitsValue(Tail(text))
    ELSE IF text[1] = "+" THEN DigitsValue(Tail(text))
    ELSE DigitsValue(text)

\* text.split(';'): the pieces between separators; ''.split(';') is [''].
RECURSIVE Split(_)
Split(text) ==
    IF \E i \in 1..Len(text) : text[i] = ";"
    THEN <<SubSeq(text, 1, (CHOOSE i \in 1..Len(text) :
                              text[i] = ";" /\ \A j \in 1..(i - 1) : text[j] # ";") - 1)>>
         \o Split(SubSeq(text, (CHOOSE i \in 1..Len(text) :
                                  text[i] = ";" /\ \A j \in 1..(i - 1) : text[j] # ";") + 1,
                         Len(text)))
    ELSE <<text>>

Lower(text) ==
    CASE text = "True" -> "true"
      [] text = "TRUE" -> "true"
      [] text = "False" -> "false"
      [] OTHER -> text

RowGet(row, key, default) == IF key \in DOMAIN row THEN row[key] ELSE default

Positions(row, key) == IF key \in DOMAIN row THEN Split(row[key]) ELSE <<>>

\* The exception raised while the arguments of record_match are built from a row.
RowError(row) ==
    IF "team_a" \notin DOMAIN row \/ "team_b" \notin DOMAIN row THEN "KeyError"
    ELSE IF "score_a" \notin DOMAIN row THEN "KeyError"
    ELSE IF ~IsIntText(row["score_a"]) THEN "ValueError"
    ELSE IF "score_b" \notin DOMAIN row THEN "KeyError"
    ELSE IF ~IsIntText(row["score_b"]) THEN "ValueError"
    ELSE "none"

Ingested(r, store_before) ==
    [store |-> r.store, before |-> store_before, raised |-> r.raised, elo |-> r.elo]

IngestRow(acc, row) ==
    IF RowError(row) # "none"
    THEN [store |-> acc.store, before |-> acc.store, raised |-> RowError(row), elo |-> NoElo]
    ELSE Ingested(RecordMatchOn(acc.store, row["team_a"], row["team_b"],
                      Match(PyInt(ParseInt(row["score_a"])), PyInt(ParseInt(row["score_b"])),
                            RowGet(row, "map_name", NoMap),
                            Lower(RowGet(row, "is_tournament", "False")) = "true",
                            RowGet(row, "stage", "Group Stage"),
                            Positions(row, "positions_a"), Positions(row, "positions_b"))),
                  acc.store)

RECURSIVE LoadRows(_, _)
LoadRows(acc, rows) ==
    IF rows = <<>> \/ acc.raised # "none" THEN acc
    ELSE LoadRows(IngestRow(acc, Head(rows)), Tail(rows))

LoadMatchesFromCsv(rows) ==
    \E r \in {LoadRows([store |-> Store, before |-> before, raised |-> "none",
                        elo |-> NoElo], rows)} :
        /\ teams' = r.store.teams
        /\ dicts' = r.store.dicts
        /\ before' = r.before
        /\ outcome' = Outcome("load_matches_from_csv", r.raised, r.elo, Zero)
        /\ calls' = calls + 1
        /\ UNCHANGED <<snapshot, normalizations>>

Init ==
    /\ teams = <<>>
    /\ dicts = <<>>
    /\ snapshot = <<>>
    /\ outcome = Outcome("__init__", "none", NoElo, Zero)
    /\ before = EmptyStore
    /\ calls = 0
    /\ normalizations = 0

\* ---- rating: matches of every outcome and stage weight, and normalization ----
RatingPairs == {<<"A", "B">>, <<"B", "C">>, <<"B", "B">>}
RatingScores == {<<16, 10>>, <<1, 1>>, <<0, 3>>}
RatingStages == {"Group Stage", "Quarterfinal"}

Next ==
    \/ \E p \in RatingPairs, s \in RatingScores, stage \in RatingStages :
          /\ calls < MaxCalls
          /\ RecordMatch(p[1], p[2], Match(PyInt(s[1]), PyInt(s[2]), "Mirage", FALSE, stage,
                                           <<>>, <<>>))
    \/ calls < MaxCalls /\ NormalizeRankings

Spec == Init /\ [][Next]_vars

\* ---- statistics and rankings: maps, positions, snapshots ----
StatsPairs == {<<"A", "B">>, <<"C", "D">>}
StatsScores == {<<2, 1>>, <<1, 1>>}
StatsMaps == {"Mirage", NoMap}
StatsPositions == {<<>>, << <<"a">>, <<"b">>, <<"a">> >>}

NextStats ==
    \/ \E p \in StatsPairs, s \in StatsScores, map_name \in StatsMaps,
          positions \in StatsPositions :
          /\ calls < MaxCalls
          /\ RecordMatch(p[1], p[2], Match(PyInt(s[1]), PyInt(s[2]), map_name, TRUE, "Final",
                                           positions, <<>>))
    \/ calls < MaxCalls /\ NormalizeRankings
    \/ calls < MaxCalls /\ GetRankings

SpecStats == Init /\ [][NextStats]_vars

\* ---- ingestion: well-formed and malformed records, directly and from a file ----
IngestPairs == {<<"A", "B">>, <<"B", "B">>}
IngestScores == {<<PyInt(2), PyInt(1)>>, <<PyNone, PyInt(1)>>, <<PyInt(1), PyStr>>,
                 <<PyStr, PyStr>>}

\* Rows of csv.DictReader carry the columns of the file's header.
GoodRow ==
    [team_a |-> "A", team_b |-> "C", score_a |-> <<"1", "6">>, score_b |-> <<"1", "0">>,
     map_name |-> "Mirage", is_tournament |-> "True", stage |-> "Final",
     positions_a |-> <<"a", ";", "b">>, positions_b |-> <<>>]

CsvRows ==
    {GoodRow,
     [GoodRow EXCEPT !.team_b = "D", !.score_b = <<"x">>],
     [team_a |-> "C", team_b |-> "A", score_a |-> <<"-", "1">>, score_b |-> <<"2">>],
     [team_a |-> "C", team_b |-> "D", score_a |-> <<>>, score_b |-> <<"2">>],
     [team_a |-> "D", team_b |-> "A", score_b |-> <<"3">>, map_name |-> "Mirage"]}

CsvFiles ==
    {<<>>} \cup {<<r>> : r \in CsvRows}
    \cup {f \in {<<r, q>> : r \in CsvRows, q \in CsvRows} : DOMAIN f[1] = DOMAIN f[2]}

NextIngest ==
    \/ \E p \in IngestPairs, s \in IngestScores :
          /\ calls < MaxCalls
          /\ RecordMatch(p[1], p[2], Match(s[1], s[2], NoMap, FALSE, "Group Stage", <<>>, <<>>))
    \/ \E rows \in CsvFiles :
          /\ calls < MaxCalls
          /\ LoadMatchesFromCsv(rows)

SpecIngest == Init /\ [][NextIngest]_vars

\* ---- long histories ----
NextRecent ==
    \/ calls < MaxRecentCalls
       /\ RecordMatch("A", "B", Match(PyInt(2), PyInt(1), "Mirage", FALSE, "Group Stage",
                                   <<>>, <<>>))
    \/ calls < MaxRecentCalls
       /\ RecordMatch("A", "A", Match(PyInt(1), PyInt(1), NoMap, TRUE, "Final", <<>>, <<>>))

SpecRecent == Init /\ [][NextRecent]_vars

\* ---- normalization of stores whose mean is not 1000 ----
\* Team.update_points is public: a client moves a team's points before normalizing.
AdjustNames == {"A", "B", "C"}
AdjustDeltas == {-200, 0, 22, 200}

AdjustPoints(name, delta) ==
    \E st \in {GetOrCreateTeam(Store, name)} :
        /\ teams' = UpdatePoints(st, TeamIndex(st, name), FromInt(delta)).teams
        /\ dicts' = st.dicts
        /\ outcome' = Outcome("update_points", "none", NoElo, Zero)
        /\ calls' = calls + 1
        /\ UNCHANGED <<snapshot, before, normalizations>>

NextNormalize ==
    \/ \E name \in AdjustNames, delta \in AdjustDeltas :
          /\ normalizations = 0
          /\ ~HasTeam(Store, name)
          /\ AdjustPoints(name, delta)
    \/ Len(teams) > 0 /\ normalizations < MaxNormalizations /\ NormalizeRankings

SpecNormalize == Init /\ [][NextNormalize]_vars

\* ---- properties ----
Min(a, b) == IF a < b THEN a ELSE b

FLe(x, y) == ~FLt(y, x)

TeamIds == 1..Len(teams)

MapPerformance(team) == dicts[team.map_performance]

CountResults(history, map_name, result) ==
    Cardinality({k \in 1..Len(history) :
                    history[k].map = map_name /\ history[k].result = result})

\* C1: for every team, recent_matches has at most 10 entries, exactly
\* min(10, len(match_history)) of them, and they are the last entries of
\* match_history in the same order.
C1_RecentIsTailOfHistory ==
    \A i \in TeamIds :
        /\ Len(teams[i].recent_matches) <= 10
        /\ Len(teams[i].recent_matches) = Min(10, Len(teams[i].match_history))
        /\ teams[i].recent_matches =
               SubSeq(teams[i].match_history,
                      Len(teams[i].match_history) - Len(teams[i].recent_matches) + 1,
                      Len(teams[i].match_history))

\* A team with more than 10 recorded matches, some of them against itself, whose
\* recent_matches no longer holds its first match.
C1_LongHistory ==
    \E i \in TeamIds :
        /\ Len(teams[i].match_history) > 10
        /\ Len(teams[i].recent_matches) = 10
        /\ \E k \in 1..Len(teams[i].match_history) :
               teams[i].match_history[k].opponent = teams[i].name
        /\ teams[i].recent_matches[1] # teams[i].match_history[1]

\* C2: for every team and map, the wins counter of map_performance equals the number
\* of the team's history records on that map whose result is "win", and the losses
\* counter the number whose result is "loss" (ties included).
C2_CountersMatchRecords ==
    \A i \in TeamIds :
        /\ \A k \in 1..Len(teams[i].match_history) :
               teams[i].match_history[k].map \in DOMAIN MapPerformance(teams[i])
        /\ \A map_name \in DOMAIN MapPerformance(teams[i]) :
               /\ MapPerformance(teams[i])[map_name].wins =
                      CountResults(teams[i].match_history, map_name, "win")
               /\ MapPerformance(teams[i])[map_name].losses =
                      CountResults(teams[i].match_history, map_name, "loss")

\* C4: when a call fails on a malformed match record, the store is exactly the store
\* from before that record: no team created, no team changed.
C4_FailedRecordLeavesStore ==
    outcome.raised \in {"TypeError", "ValueError", "KeyError"} => Store = before

\* C5: normalize_rankings on a store without teams fails with an explicit
\* "no teams to normalize" error, not with a division fault, and changes nothing.
C5_ExplicitNoTeamsError ==
    (outcome.op = "normalize_rankings" /\ Len(teams) = 0) =>
        outcome.raised = "NoTeamsToNormalize"

PointsOf(name) == teams[TeamIndex(Store, name)].points

\* C8: get_rankings returns one record per team, points non-increasing from first to
\* last, and teams with equal points in the order of their creation.
C8_RankingsSortedAndStable ==
    outcome.op = "get_rankings" =>
        /\ Len(snapshot) = Len(teams)
        /\ \A t \in TeamIds :
               Cardinality({i \in 1..Len(snapshot) : snapshot[i].team = teams[t].name}) = 1
        /\ \A i \in 1..Len(snapshot) : snapshot[i].points = Round2(PointsOf(snapshot[i].team))
        /\ \A i, j \in 1..Len(snapshot) :
               i < j =>
                   /\ FLe(snapshot[j].points, snapshot[i].points)
                   /\ FLe(PointsOf(snapshot[j].team), PointsOf(snapshot[i].team))
                   /\ PointsOf(snapshot[i].team) = PointsOf(snapshot[j].team) =>
                          TeamIndex(Store, snapshot[i].team) < TeamIndex(Store, snapshot[j].team)

\* A ranking of four teams in which two teams tie, and the tied pair sits between a
\* team with more points and one with fewer.
C8_RankingWithTies ==
    /\ outcome.op = "get_rankings"
    /\ Len(snapshot) = 4
    /\ \E i \in 1..3 : snapshot[i].points = snapshot[i + 1].points
    /\ \E i \in 1..3 : FLt(snapshot[i + 1].points, snapshot[i].points)

\* C9: from an empty store, record_match("A", "B", 16, 10, map, stage="Group Stage")
\* ends with A at 1022 and B at 978 (k_factor 44, expected score 0.5), one win on the
\* map for A, one loss for B, and records saying "win" for A and "loss" for B.
C9_FreshGroupStageMatch ==
    (/\ outcome.op = "record_match"
     /\ outcome.raised = "none"
     /\ before = EmptyStore
     /\ Len(teams) = 2
     /\ teams[1].name = "A"
     /\ teams[2].name = "B"
     /\ teams[1].match_history[1].score = 16
     /\ teams[2].match_history[1].score = 10
     /\ teams[1].match_history[1].stage = "Group Stage")
    => /\ outcome.elo.k_factor = FromInt(44)
       /\ outcome.elo.expected_a = Dec(1, 2)
       /\ outcome.elo.delta_a = FromInt(22)
       /\ outcome.elo.delta_b = FromInt(-22)
       /\ teams[1].points = FromInt(1022)
       /\ teams[2].points = FromInt(978)
       /\ Len(teams[1].match_history) = 1
       /\ Len(teams[2].match_history) = 1
       /\ teams[1].match_history[1].result = "win"
       /\ teams[2].match_history[1].result = "loss"
       /\ MapPerformance(teams[1]) =
              (teams[1].match_history[1].map :> [wins |-> 1, losses |-> 0])
       /\ MapPerformance(teams[2]) =
              (teams[2].match_history[1].map :> [wins |-> 0, losses |-> 1])

\* The store right after that first match.
C9_AfterFirstMatch ==
    /\ outcome.op = "record_match"
    /\ before = EmptyStore
    /\ Len(teams) = 2
    /\ teams[1].name = "A"
    /\ teams[2].name = "B"
    /\ teams[1].match_history = <<MatchDetails("B", 16, "win", "Mirage", FALSE, "Group Stage")>>
    /\ teams[2].match_history = <<MatchDetails("A", 10, "loss", "Mirage", FALSE, "Group Stage")>>

\* What a holder of the last snapshot sees: map_performance is read through the dict
\* object the record refers to.
SnapshotView ==
    [i \in 1..Len(snapshot) |->
        [team |-> snapshot[i].team, points |-> snapshot[i].points,
         map_performance |-> dicts[snapshot[i].map_performance],
         heatmap |-> snapshot[i].heatmap]]

\* C10: get_rankings changes no team state, and no later call changes the team,
\* points, map_performance or heatmap of a record in a snapshot already returned.
C10_SnapshotIsFixed ==
    [][/\ outcome'.op = "get_rankings" => (teams' = teams /\ dicts' = dicts)
       /\ outcome'.op # "get_rankings" => SnapshotView' = SnapshotView]_vars

\* ---- numerical properties ----
\* Points are compared exactly as integers, in units of 2^(8 - Precision): every
\* float of magnitude 128 or more is a whole number of units.
UnitsPerPoint == Pow2(Precision - 8)

Units(x) == x.m * Pow2(x.e + Precision - 8)

\* The spacing of floats in [1024, 2048), in units.
UlpOfPoints == Pow2(11 - 8)

RECURSIVE UnitsSum(_)
UnitsSum(ts) == IF ts = <<>> THEN 0 ELSE Units(Head(ts).points) + UnitsSum(Tail(ts))

RECURSIVE HistoryEntries(_)
HistoryEntries(ts) ==
    IF ts = <<>> THEN 0 ELSE Len(Head(ts).match_history) + HistoryEntries(Tail(ts))

\* Every match appends two history entries.
MatchesRecorded == HistoryEntries(teams) \div 2

\* 2 * 2^(-Precision)
TwoRoundings == [m |-> Pow2(Precision - 1), e |-> 2 - 2 * Precision]

MatchRecorded == outcome.op = "record_match" /\ outcome.raised = "none"

MarginScores == {<<1, 1>>, <<0, 1>>, <<0, 16>>, <<1, 0>>, <<3, 1>>, <<16, 10>>}
MarginStages == {"Quarterfinal", "Showmatch"}

Margin(s) == Abs(s[1] - s[2])

AbsDeltaA(expected_a, stage, s) ==
    FAbs(DeltaA(KFactor(stage, s[1], s[2]), ActualA(s[1], s[2]), expected_a))

\* |delta_a| of every score line, for one expected score and stage.
AbsDeltas(expected_a, stage) == [s \in MarginScores |-> AbsDeltaA(expected_a, stage, s)]

SameOutcomeLines ==
    {l \in MarginScores \X MarginScores : (l[1][1] > l[1][2]) = (l[2][1] > l[2][2])}

\* C6 as stated: with stage and points fixed, of any two score lines the one with the
\* larger margin gives the strictly larger |delta_a|.
C6_MarginAlwaysAmplifies ==
    \A i, j \in TeamIds : \A expected_a \in {ExpectedA(teams[i].points, teams[j].points)} :
        \A stage \in MarginStages : \A d \in {AbsDeltas(expected_a, stage)} :
            \A l \in MarginScores \X MarginScores :
                Margin(l[1]) < Margin(l[2]) => FLt(d[l[1]], d[l[2]])

\* C6 for score lines with the same outcome for A (both won by A, or both not won by
\* A): the larger margin gives the strictly larger |delta_a|, unless both are 0.
C6_MarginAmplifiesSameOutcome ==
    \A i, j \in TeamIds : \A expected_a \in {ExpectedA(teams[i].points, teams[j].points)} :
        \A stage \in MarginStages : \A d \in {AbsDeltas(expected_a, stage)} :
            \A l \in SameOutcomeLines :
                Margin(l[1]) < Margin(l[2]) =>
                    \/ FLt(d[l[1]], d[l[2]])
                    \/ d[l[1]] = Zero /\ d[l[2]] = Zero

\* Two teams with different points after a match, where A's narrow loss moves more
\* points than A's clearer win, which in turn moves more than A's narrow win.
C6_UnequalTeams ==
    /\ MatchRecorded
    /\ \E i, j \in TeamIds : \E d \in {AbsDeltas(ExpectedA(teams[i].points, teams[j].points),
                                                 "Group Stage")} :
          /\ FLt(teams[j].points, teams[i].points)
          /\ FLt(d[<<3, 1>>], d[<<0, 1>>])
          /\ FLt(d[<<1, 0>>], d[<<3, 1>>])

Normalized == normalizations' = normalizations + 1

====
